---- MODULE Spec2Model ----
(***************************************************************************)
(* Model of RewardEngineService.calculatePointsPreview                     *)
(* (src/src/services/rewardEngineService.ts) and of the values it is       *)
(* called with, followed by the blanketMode migration, the settings form,  *)
(* interleaved callers, calculatePointsForOrder and customer onboarding,   *)
(* each under a specification of its own.                                  *)
(*                                                                         *)
(* JavaScript values are records [k, n, d]:                                *)
(*   k = "fin"    the finite number n/d (d > 0), in exact arithmetic;      *)
(*   k = "nan"    NaN;                                                     *)
(*   k = "inf"    +Infinity (n = 1) or -Infinity (n = -1);                 *)
(*   k = "undef"  undefined (a property that is missing);                  *)
(*   k = "fn"     a function object (what a property inherited from        *)
(*                Object.prototype, such as toString, evaluates to);       *)
(*   k = "null"   null (what JSON gives back for a non-finite number).     *)
(* Finite arithmetic is exact: the rounding of IEEE-754 doubles is not     *)
(* modelled; the values the model draws are ones on which the double       *)
(* computation and the exact one agree.                                    *)
(***************************************************************************)
EXTENDS Integers, FiniteSets, Sequences, TLC

VARIABLES
  config,        \* a RewardEngineConfig: the argument of a call, the form's state
  orderAmount,   \* the order amount of a call (the form's previewAmount)
  customerTier,  \* the customer tier of a call (the form's previewTier)
  pc,            \* where the modelled operation stands
  ret,           \* what the last call produced
  restaurants,   \* table restaurants: row id -> settings (jsonb or NULL)
  mig,           \* the table before the migration and after its first run
  ui             \* the rest of a component's state, or the frames of the callers

vars == <<config, orderAmount, customerTier, pc, ret, restaurants, mig, ui>>

\* The state of the calculator call, and the state of the database.
callVars == <<config, orderAmount, customerTier, ret>>

dbVars == <<restaurants, mig>>

\* No component, for the operations that run outside one.
NoComponent == <<>>

(***************************************************************************)
(* JavaScript numbers and the operators the function applies to them.      *)
(***************************************************************************)
Fin(n, d) == [k |-> "fin", n |-> n, d |-> d]
NaN == [k |-> "nan", n |-> 0, d |-> 1]
Infinity == [k |-> "inf", n |-> 1, d |-> 1]
NegInfinity == [k |-> "inf", n |-> -1, d |-> 1]
Undefined == [k |-> "undef", n |-> 0, d |-> 1]
FunctionObject == [k |-> "fn", n |-> 0, d |-> 1]
Null == [k |-> "null", n |-> 0, d |-> 1]

\* ToNumber: undefined and a function object convert to NaN, null to 0.
ToNumber(v) ==
  IF v.k \in {"undef", "fn"} THEN NaN
  ELSE IF v.k = "null" THEN [k |-> "fin", n |-> 0, d |-> 1]
  ELSE v

\* ToBoolean: undefined, null, NaN and 0 are falsy; every object is truthy.
ToBoolean(v) ==
  CASE v.k = "undef" -> FALSE
    [] v.k = "null" -> FALSE
    [] v.k = "nan" -> FALSE
    [] v.k = "fin" -> v.n # 0
    [] OTHER -> TRUE

Sgn(i) == IF i > 0 THEN 1 ELSE IF i < 0 THEN -1 ELSE 0

\* The sign of a number that is not NaN (an infinity carries it in n).
Sign(v) == Sgn(v.n)

SignedInfinity(s) == IF s < 0 THEN NegInfinity ELSE Infinity

\* a - b
Sub(a, b) ==
  LET x == ToNumber(a)
      y == ToNumber(b)
  IN  CASE x.k = "nan" \/ y.k = "nan" -> NaN
        [] x.k = "fin" /\ y.k = "fin" -> Fin(x.n * y.d - y.n * x.d, x.d * y.d)
        [] x.k = "inf" /\ y.k = "inf" -> IF x.n = y.n THEN NaN ELSE x
        [] x.k = "inf" -> x
        [] OTHER -> SignedInfinity(-y.n)

\* a * b
Mul(a, b) ==
  LET x == ToNumber(a)
      y == ToNumber(b)
  IN  CASE x.k = "nan" \/ y.k = "nan" -> NaN
        [] x.k = "fin" /\ y.k = "fin" -> Fin(x.n * y.n, x.d * y.d)
        [] Sign(x) = 0 \/ Sign(y) = 0 -> NaN
        [] OTHER -> SignedInfinity(Sign(x) * Sign(y))

\* a / b  (a zero divisor counts as +0)
Div(a, b) ==
  LET x == ToNumber(a)
      y == ToNumber(b)
  IN  CASE x.k = "nan" \/ y.k = "nan" -> NaN
        [] x.k = "inf" /\ y.k = "inf" -> NaN
        [] x.k = "inf" -> SignedInfinity(IF Sign(y) < 0 THEN -x.n ELSE x.n)
        [] y.k = "inf" -> Fin(0, 1)
        [] y.n = 0 -> IF x.n = 0 THEN NaN ELSE SignedInfinity(Sign(x))
        [] OTHER -> Fin(Sgn(y.n) * x.n * y.d, Sgn(y.n) * y.n * x.d)

\* a > b
Gt(a, b) ==
  LET x == ToNumber(a)
      y == ToNumber(b)
  IN  CASE x.k = "nan" \/ y.k = "nan" -> FALSE
        [] x.k = "fin" /\ y.k = "fin" -> x.n * y.d > y.n * x.d
        [] x.k = "inf" /\ y.k = "inf" -> x.n > y.n
        [] x.k = "inf" -> x.n > 0
        [] OTHER -> y.n < 0

\* Math.floor
MathFloor(a) ==
  LET x == ToNumber(a)
  IN  IF x.k = "fin" THEN Fin(x.n \div x.d, 1) ELSE x

\* Math.max and Math.min of two arguments: NaN as soon as one is NaN.
MathMax(a, b) ==
  LET x == ToNumber(a)
      y == ToNumber(b)
  IN  IF x.k = "nan" \/ y.k = "nan" THEN NaN
      ELSE IF Gt(y, x) THEN y ELSE x

MathMin(a, b) ==
  LET x == ToNumber(a)
      y == ToNumber(b)
  IN  IF x.k = "nan" \/ y.k = "nan" THEN NaN
      ELSE IF Gt(x, y) THEN y ELSE x

(***************************************************************************)
(* Objects.  A settings object is a record of its own properties, or       *)
(* Undefined when the configuration lacks it.                              *)
(***************************************************************************)
\* Properties every plain object inherits from Object.prototype.
ObjectPrototypeKeys == {"constructor", "toString", "valueOf", "hasOwnProperty"}

\* obj[key] on a plain object: own property, else inherited, else undefined.
GetProperty(obj, key) ==
  IF key \in DOMAIN obj THEN obj[key]
  ELSE IF key \in ObjectPrototypeKeys THEN FunctionObject
  ELSE Undefined

\* RewardEngineService.getDefaultConfig
getDefaultConfig ==
  [mode |-> "manual",
   smart_settings |-> [cost_price |-> Fin(0, 1),
                       selling_price |-> Fin(0, 1),
                       profit_allocation_percent |-> Fin(20, 1)],
   manual_settings |-> [aed_value |-> Fin(10, 1), point_value |-> Fin(1, 1)],
   tier_multipliers |-> [bronze |-> Fin(1, 1), silver |-> Fin(5, 4),
                         gold |-> Fin(3, 2), platinum |-> Fin(2, 1)],
   max_points_per_order |-> Fin(1000, 1)]

(***************************************************************************)
(* RewardEngineService.calculatePointsPreview.  The result records whether *)
(* the call threw and, when it did not, the intermediate values and the    *)
(* returned value.                                                         *)
(***************************************************************************)
Thrown ==
  [threw |-> TRUE, basePoints |-> Undefined, tierMultiplier |-> Undefined,
   finalPoints |-> Undefined, value |-> Undefined]

\* A variant of SmartBasePoints that scales the unit profit by the whole amount
\* instead of by the number of items (amount / selling_price).
SmartBasePointsPerAmount(s, amount) ==
  LET cost_price == s.cost_price
      selling_price == s.selling_price
      profit_allocation_percent == s.profit_allocation_percent
  IN  IF Gt(selling_price, Fin(0, 1))
      THEN LET profit == Mul(Sub(selling_price, cost_price), amount)
               rewardValue == Mul(profit, Div(profit_allocation_percent, Fin(100, 1)))
           IN  MathFloor(rewardValue)
      ELSE Fin(0, 1)

\* Lines 101-106: the smart branch, smart_settings present.
SmartBasePoints(s, amount) ==
  LET cost_price == s.cost_price
      selling_price == s.selling_price
      profit_allocation_percent == s.profit_allocation_percent
  IN  IF Gt(selling_price, Fin(0, 1))
      THEN LET profit == Mul(Sub(selling_price, cost_price), Div(amount, selling_price))
               rewardValue == Mul(profit, Div(profit_allocation_percent, Fin(100, 1)))
           IN  MathFloor(rewardValue)
      ELSE Fin(0, 1)

\* A variant of ManualBasePoints that does not floor the base points, so that
\* the only floor is the one after the tier multiplier.
ManualBasePointsUnfloored(m, amount) ==
  LET aed_value == m.aed_value
      point_value == m.point_value
  IN  IF Gt(aed_value, Fin(0, 1))
      THEN Mul(Div(amount, aed_value), point_value)
      ELSE Fin(0, 1)

\* A variant of ManualBasePoints that floors the ratio before it is multiplied
\* by point_value.
ManualBasePointsFloorRatio(m, amount) ==
  LET aed_value == m.aed_value
      point_value == m.point_value
  IN  IF Gt(aed_value, Fin(0, 1))
      THEN Mul(MathFloor(Div(amount, aed_value)), point_value)
      ELSE Fin(0, 1)

\* Lines 108-111: the manual branch, manual_settings present.
ManualBasePoints(m, amount) ==
  LET aed_value == m.aed_value
      point_value == m.point_value
  IN  IF Gt(aed_value, Fin(0, 1))
      THEN MathFloor(Mul(Div(amount, aed_value), point_value))
      ELSE Fin(0, 1)

\* Line 115: config.tier_multipliers[customerTier] || 1.0
TierMultiplier(tier_multipliers, tier) ==
  LET found == GetProperty(tier_multipliers, tier)
  IN  IF ToBoolean(found) THEN found ELSE Fin(1, 1)

\* Line 116
FinalPoints(basePoints, tierMultiplier) == MathFloor(Mul(basePoints, tierMultiplier))

\* A variant of Clamp without the ceiling.
ClampWithoutCeiling(finalPoints, max_points_per_order) ==
  MathMax(finalPoints, Fin(0, 1))

\* A variant of Clamp without the floor at 0.
ClampWithoutFloor(finalPoints, max_points_per_order) ==
  MathMin(finalPoints, max_points_per_order)

\* Line 119
Clamp(finalPoints, max_points_per_order) ==
  MathMin(MathMax(finalPoints, Fin(0, 1)), max_points_per_order)

\* A variant of calculatePointsPreview that destructures both settings objects
\* before it branches on the mode.
calculatePointsPreviewEager(cfg, amount, tier) ==
  IF cfg.smart_settings = Undefined \/ cfg.manual_settings = Undefined
       \/ cfg.tier_multipliers = Undefined
  THEN Thrown
  ELSE LET basePoints == IF cfg.mode = "smart"
                         THEN SmartBasePoints(cfg.smart_settings, amount)
                         ELSE ManualBasePoints(cfg.manual_settings, amount)
           tierMultiplier == TierMultiplier(cfg.tier_multipliers, tier)
           finalPoints == FinalPoints(basePoints, tierMultiplier)
       IN  [threw |-> FALSE,
            basePoints |-> basePoints,
            tierMultiplier |-> tierMultiplier,
            finalPoints |-> finalPoints,
            value |-> Clamp(finalPoints, cfg.max_points_per_order)]

\* Destructuring an undefined settings object (lines 101, 108) and indexing an
\* undefined tier_multipliers (line 115) throw a TypeError.
calculatePointsPreview(cfg, amount, tier) ==
  LET settings == IF cfg.mode = "smart" THEN cfg.smart_settings ELSE cfg.manual_settings
  IN  IF settings = Undefined \/ cfg.tier_multipliers = Undefined THEN Thrown
      ELSE LET basePoints == IF cfg.mode = "smart"
                             THEN SmartBasePoints(cfg.smart_settings, amount)
                             ELSE ManualBasePoints(cfg.manual_settings, amount)
               tierMultiplier == TierMultiplier(cfg.tier_multipliers, tier)
               finalPoints == FinalPoints(basePoints, tierMultiplier)
           IN  [threw |-> FALSE,
                basePoints |-> basePoints,
                tierMultiplier |-> tierMultiplier,
                finalPoints |-> finalPoints,
                value |-> Clamp(finalPoints, cfg.max_points_per_order)]

(***************************************************************************)
(* The values the function is called with.                                 *)
(***************************************************************************)
\* Order amounts on a grid of 12.5, from -12.5 up to 12.5 * MaxAmountSteps.
MaxAmountSteps == 1

GridAmounts ==
  {IF i % 2 = 0 THEN Fin(25 * (i \div 2), 1) ELSE Fin(25 * i, 2) : i \in -1..MaxAmountSteps}

\* The amounts of the worked examples, and 98 (9.8 base points in manual mode).
ExampleAmounts == {Fin(95, 1), Fin(98, 1), Fin(100, 1)}

NonFiniteAmounts == {NaN, Infinity, NegInfinity}

OrderAmounts == GridAmounts \cup ExampleAmounts \cup NonFiniteAmounts

KnownTiers == {"bronze", "silver", "gold", "platinum"}

\* The known tiers, a name no object has, and a name every object inherits.
CustomerTiers == KnownTiers \cup {"vip", "toString"}

SmartSettingsSet ==
  [cost_price : {Fin(5, 1), Fin(15, 1)},
   selling_price : {Fin(-10, 1), Fin(0, 1), Fin(10, 1)},
   profit_allocation_percent : {Fin(20, 1), Fin(100, 1)}]

ManualSettingsSet ==
  [aed_value : {Fin(-10, 1), Fin(0, 1), Fin(10, 1)},
   point_value : {Fin(1, 1), Fin(1, 2)}]

\* The default multipliers, and a degenerate object: a zero, a negative and a
\* large multiplier, and no platinum property.
TierMultipliersSet ==
  {getDefaultConfig.tier_multipliers,
   [bronze |-> Fin(0, 1), silver |-> Fin(-5, 4), gold |-> Fin(3, 1)]}

MaxPointsSet == {Fin(10, 1), Fin(1000, 1), Fin(-5, 1)}

Configs ==
  [mode : {"smart", "manual"},
   smart_settings : SmartSettingsSet \cup {Undefined},
   manual_settings : ManualSettingsSet \cup {Undefined},
   tier_multipliers : TierMultipliersSet \cup {Undefined},
   max_points_per_order : MaxPointsSet]

NotCalled ==
  [threw |-> FALSE, basePoints |-> Undefined, tierMultiplier |-> Undefined,
   finalPoints |-> Undefined, value |-> Undefined]

\* No table, for the operations that use none.
NoTable == <<>>

NoDatabase == restaurants = NoTable /\ mig = NoTable

Init ==
  /\ config \in Configs
  /\ orderAmount \in OrderAmounts
  /\ customerTier \in CustomerTiers
  /\ pc = "ready"
  /\ ret = NotCalled
  /\ NoDatabase
  /\ ui = NoComponent

\* One call of calculatePointsPreview(config, orderAmount, customerTier).
Call ==
  /\ pc = "ready"
  /\ ret' = calculatePointsPreview(config, orderAmount, customerTier)
  /\ pc' = "done"
  /\ UNCHANGED <<config, orderAmount, customerTier>>
  /\ UNCHANGED <<dbVars, ui>>

Next == Call

Spec == Init /\ [][Next]_vars

(***************************************************************************)
(* Vocabulary of the properties.                                           *)
(***************************************************************************)
Called == pc = "done"

Returned == Called /\ ~ret.threw

IsFinite(v) == v.k = "fin"

IsInteger(v) == v.k = "fin" /\ v.n % v.d = 0

IsZero(v) == v.k = "fin" /\ v.n = 0

\* a = b as numbers, for finite a and b.
NumEq(a, b) == a.k = "fin" /\ b.k = "fin" /\ a.n * b.d = b.n * a.d

\* a <= b as numbers, for finite a and b.
NumLeq(a, b) == a.k = "fin" /\ b.k = "fin" /\ a.n * b.d <= b.n * a.d

\* The configuration has the shape and the ranges of the data model:
\* prices >= 0, percent in [0,100], aed_value > 0, point_value >= 0, a positive
\* multiplier for each known tier, max_points_per_order an integer >= 1.
SatisfiesDataModel(cfg) ==
  /\ cfg.smart_settings # Undefined
  /\ NumLeq(Fin(0, 1), cfg.smart_settings.cost_price)
  /\ NumLeq(Fin(0, 1), cfg.smart_settings.selling_price)
  /\ NumLeq(Fin(0, 1), cfg.smart_settings.profit_allocation_percent)
  /\ NumLeq(cfg.smart_settings.profit_allocation_percent, Fin(100, 1))
  /\ cfg.manual_settings # Undefined
  /\ Gt(cfg.manual_settings.aed_value, Fin(0, 1))
  /\ NumLeq(Fin(0, 1), cfg.manual_settings.point_value)
  /\ cfg.tier_multipliers # Undefined
  /\ KnownTiers \subseteq DOMAIN cfg.tier_multipliers
  /\ \A t \in KnownTiers : Gt(cfg.tier_multipliers[t], Fin(0, 1))
  /\ IsInteger(cfg.max_points_per_order)
  /\ NumLeq(Fin(1, 1), cfg.max_points_per_order)

\* The configuration lacks the settings object of its mode, or tier_multipliers.
Malformed(cfg) ==
  \/ cfg.mode = "smart" /\ cfg.smart_settings = Undefined
  \/ cfg.mode = "manual" /\ cfg.manual_settings = Undefined
  \/ cfg.tier_multipliers = Undefined

\* The settings the mode selects are present and their divisor is positive.
DivisorPositive(cfg) ==
  IF cfg.mode = "smart"
  THEN cfg.smart_settings # Undefined /\ Gt(cfg.smart_settings.selling_price, Fin(0, 1))
  ELSE cfg.manual_settings # Undefined /\ Gt(cfg.manual_settings.aed_value, Fin(0, 1))

\* The base quantity before any floor, as the fraction num/den with den > 0, in
\* integer arithmetic, for a finite amount and a positive divisor:
\*   smart   (selling_price - cost_price) * (amount / selling_price) * (percent / 100)
\*   manual  (amount / aed_value) * point_value
UnflooredBase(cfg, amount) ==
  IF cfg.mode = "smart"
  THEN LET cp == cfg.smart_settings.cost_price
           sp == cfg.smart_settings.selling_price
           pa == cfg.smart_settings.profit_allocation_percent
       IN  [num |-> (sp.n * cp.d - cp.n * sp.d) * amount.n * sp.d * pa.n,
            den |-> sp.d * cp.d * amount.d * sp.n * pa.d * 100]
  ELSE LET av == cfg.manual_settings.aed_value
           pv == cfg.manual_settings.point_value
       IN  [num |-> amount.n * av.d * pv.n,
            den |-> amount.d * av.n * pv.d]

FlooredBase(cfg, amount) ==
  LET b == UnflooredBase(cfg, amount) IN b.num \div b.den

(***************************************************************************)
(* C1.  For every configuration, order amount and customer tier the        *)
(* returned value is an integer r with 0 <= r <= max_points_per_order.     *)
(* Stated here for the configurations of the data model only; it fails     *)
(* already there (amount NaN, tier "toString").                            *)
(***************************************************************************)
C1_ResultIsBoundedInteger ==
  (Called /\ SatisfiesDataModel(config)) =>
    /\ ~ret.threw
    /\ IsInteger(ret.value)
    /\ NumLeq(Fin(0, 1), ret.value)
    /\ NumLeq(ret.value, config.max_points_per_order)

(***************************************************************************)
(* C2.  The base points are floored, the tier multiplier is applied to the *)
(* floored base and the product is floored again:                          *)
(* finalPoints = floor(floor(base) * tierMultiplier); and for manual mode  *)
(* with aed_value = 10, point_value = 1, orderAmount = 95 and the silver   *)
(* multiplier 1.25 the result is 11 (when the maximum allows 11).          *)
(***************************************************************************)
C2_TwoStageFloor ==
  /\ (Returned /\ IsFinite(orderAmount) /\ DivisorPositive(config)
        /\ IsFinite(ret.tierMultiplier)) =>
       ret.finalPoints =
         Fin((FlooredBase(config, orderAmount) * ret.tierMultiplier.n)
               \div ret.tierMultiplier.d, 1)
  /\ (Returned /\ config.mode = "manual"
        /\ config.manual_settings = [aed_value |-> Fin(10, 1), point_value |-> Fin(1, 1)]
        /\ orderAmount = Fin(95, 1)
        /\ customerTier = "silver"
        /\ config.tier_multipliers = getDefaultConfig.tier_multipliers
        /\ NumLeq(Fin(11, 1), config.max_points_per_order)) =>
       ret.value = Fin(11, 1)

\* 9.8 base points at multiplier 1.25: floor(9 * 1.25) = 11, where a single
\* floor of 9.8 * 1.25 = 12.25 would give 12.
C2_Witness ==
  /\ Returned
  /\ config.mode = "manual"
  /\ config.manual_settings = [aed_value |-> Fin(10, 1), point_value |-> Fin(1, 1)]
  /\ orderAmount = Fin(98, 1)
  /\ ret.tierMultiplier = Fin(5, 4)
  /\ ret.basePoints = Fin(9, 1)
  /\ ret.finalPoints = Fin(11, 1)
  /\ ret.value = Fin(11, 1)

(***************************************************************************)
(* C3.  Smart mode: with selling_price > 0 the base points are             *)
(* floor((selling_price - cost_price) * (orderAmount / selling_price)      *)
(*       * (profit_allocation_percent / 100)),                             *)
(* with selling_price <= 0 they are 0; for cost_price = 5,                 *)
(* selling_price = 10, profit_allocation_percent = 20, orderAmount = 100   *)
(* and multiplier 1.0 the result is 10 (when the maximum allows 10).       *)
(***************************************************************************)
C3_SmartBasePoints ==
  /\ (Returned /\ config.mode = "smart" /\ IsFinite(orderAmount)
        /\ DivisorPositive(config)) =>
       ret.basePoints = Fin(FlooredBase(config, orderAmount), 1)
  /\ (Returned /\ config.mode = "smart"
        /\ NumLeq(config.smart_settings.selling_price, Fin(0, 1))) =>
       ret.basePoints = Fin(0, 1)
  /\ (Returned /\ config.mode = "smart"
        /\ config.smart_settings = [cost_price |-> Fin(5, 1),
                                    selling_price |-> Fin(10, 1),
                                    profit_allocation_percent |-> Fin(20, 1)]
        /\ orderAmount = Fin(100, 1)
        /\ NumEq(ret.tierMultiplier, Fin(1, 1))
        /\ NumLeq(Fin(10, 1), config.max_points_per_order)) =>
       ret.value = Fin(10, 1)

C3_Witness ==
  /\ Returned
  /\ config.mode = "smart"
  /\ config.smart_settings = [cost_price |-> Fin(5, 1),
                              selling_price |-> Fin(10, 1),
                              profit_allocation_percent |-> Fin(20, 1)]
  /\ orderAmount = Fin(100, 1)
  /\ customerTier = "bronze"
  /\ ret.basePoints = Fin(10, 1)
  /\ ret.value = Fin(10, 1)

(***************************************************************************)
(* C4.  Manual mode: with aed_value > 0 the base points are                *)
(* floor((orderAmount / aed_value) * point_value), with aed_value <= 0     *)
(* they are 0.                                                             *)
(***************************************************************************)
C4_ManualBasePoints ==
  /\ (Returned /\ config.mode = "manual" /\ IsFinite(orderAmount)
        /\ DivisorPositive(config)) =>
       ret.basePoints = Fin(FlooredBase(config, orderAmount), 1)
  /\ (Returned /\ config.mode = "manual"
        /\ NumLeq(config.manual_settings.aed_value, Fin(0, 1))) =>
       ret.basePoints = Fin(0, 1)

\* 95 / 10 * 0.5 = 4.75, floored to 4.
C4_Witness ==
  /\ Returned
  /\ config.mode = "manual"
  /\ config.manual_settings = [aed_value |-> Fin(10, 1), point_value |-> Fin(1, 2)]
  /\ orderAmount = Fin(95, 1)
  /\ ret.basePoints = Fin(4, 1)

(***************************************************************************)
(* C5.  Whenever the points after the tier multiplier exceed               *)
(* max_points_per_order, the returned value is exactly                     *)
(* max_points_per_order.                                                   *)
(***************************************************************************)
C5_ClampToMaximum ==
  (Returned /\ Gt(ret.finalPoints, config.max_points_per_order)) =>
    ret.value = config.max_points_per_order

\* 100 / 10 * 1 = 10 base points, doubled for platinum, capped at 10.
C5_Witness ==
  /\ Returned
  /\ SatisfiesDataModel(config)
  /\ config.max_points_per_order = Fin(10, 1)
  /\ ret.finalPoints = Fin(20, 1)
  /\ ret.value = Fin(10, 1)

(***************************************************************************)
(* C6.  For every customerTier that is not one of bronze, silver, gold,    *)
(* platinum the returned value is the one returned for the same            *)
(* configuration and amount with a tier whose multiplier is explicitly 1.0.*)
(* Stated for the configurations of the data model.                        *)
(***************************************************************************)
C6_UnknownTierIsMultiplierOne ==
  (Called /\ SatisfiesDataModel(config) /\ customerTier \notin KnownTiers) =>
    ret.value =
      calculatePointsPreview(
        [config EXCEPT !.tier_multipliers.bronze = Fin(1, 1)],
        orderAmount, "bronze").value

(***************************************************************************)
(* C7.  For orderAmount = 0 the returned value is 0, in smart and in       *)
(* manual mode, for every configuration and tier.  Stated for the          *)
(* configurations of the data model.                                       *)
(***************************************************************************)
C7_ZeroAmountZeroPoints ==
  (Called /\ SatisfiesDataModel(config) /\ IsZero(orderAmount)) =>
    (~ret.threw /\ ret.value = Fin(0, 1))

(***************************************************************************)
(* C8.  A negative orderAmount awards 0 points, in either mode, also when  *)
(* cost_price exceeds selling_price, for every tier.  Stated for the       *)
(* configurations of the data model and the four known tiers.              *)
(***************************************************************************)
C8_NegativeAmountZeroPoints ==
  (Called /\ SatisfiesDataModel(config) /\ customerTier \in KnownTiers
     /\ IsFinite(orderAmount) /\ orderAmount.n < 0) =>
    (~ret.threw /\ ret.value = Fin(0, 1))

(***************************************************************************)
(* C9.  The call never raises: for every input it returns a number, and a  *)
(* configuration that lacks the settings of the selected mode, or          *)
(* tier_multipliers, yields 0.                                             *)
(***************************************************************************)
C9_NeverRaises ==
  Called =>
    /\ ~ret.threw
    /\ Malformed(config) => ret.value = Fin(0, 1)

(***************************************************************************)
(* C10.  The mode alone selects the authoritative settings: in smart mode  *)
(* the outcome is the same whatever manual_settings holds (also when it is *)
(* missing), and in manual mode the same whatever smart_settings holds.    *)
(***************************************************************************)
C10_OtherSettingsIgnored ==
  Called =>
    /\ config.mode = "smart" =>
         \A m \in ManualSettingsSet \cup {Undefined} :
           calculatePointsPreview([config EXCEPT !.manual_settings = m],
                                  orderAmount, customerTier) = ret
    /\ config.mode = "manual" =>
         \A s \in SmartSettingsSet \cup {Undefined} :
           calculatePointsPreview([config EXCEPT !.smart_settings = s],
                                  orderAmount, customerTier) = ret

\* A smart-mode call that awards points although manual_settings is missing.
C10_Witness ==
  /\ Returned
  /\ config.mode = "smart"
  /\ config.manual_settings = Undefined
  /\ IsFinite(ret.value)
  /\ ret.value.n > 0

(***************************************************************************)
(* C12.  Whenever the points after the tier multiplier are negative, the   *)
(* returned value is 0, never a negative number, for every                 *)
(* max_points_per_order the data model allows (an integer >= 1).           *)
(***************************************************************************)
C12_NegativePointsClampToZero ==
  (Returned /\ Gt(Fin(0, 1), ret.finalPoints)
     /\ IsInteger(config.max_points_per_order)
     /\ NumLeq(Fin(1, 1), config.max_points_per_order)) =>
    ret.value = Fin(0, 1)

\* -12.5 / 10 * 1 = -1.25, floored to -2 base points; bronze leaves -2.
C12_Witness ==
  /\ Returned
  /\ SatisfiesDataModel(config)
  /\ ret.finalPoints = Fin(-2, 1)
  /\ ret.value = Fin(0, 1)

(***************************************************************************)
(* C13.  Degenerate inputs are normalized: a zero or negative divisor      *)
(* (selling_price in smart mode, aed_value in manual mode) yields 0, an    *)
(* unknown tier yields multiplier 1.0, and a non-finite orderAmount yields *)
(* a non-negative integer within the maximum.  Stated for configurations   *)
(* that have their settings objects and a maximum of the data model, and   *)
(* for tiers that name no inherited property.                              *)
(***************************************************************************)
C13_DegenerateInputsNormalized ==
  (Called /\ ~Malformed(config)
     /\ IsInteger(config.max_points_per_order)
     /\ NumLeq(Fin(1, 1), config.max_points_per_order)
     /\ customerTier \notin ObjectPrototypeKeys) =>
    /\ ~ret.threw
    /\ ~DivisorPositive(config) => ret.value = Fin(0, 1)
    /\ customerTier \notin KnownTiers => ret.tierMultiplier = Fin(1, 1)
    /\ ~IsFinite(orderAmount) =>
         /\ IsInteger(ret.value)
         /\ NumLeq(Fin(0, 1), ret.value)
         /\ NumLeq(ret.value, config.max_points_per_order)

(***************************************************************************)
(* jsonb.  A JSON value is a record [t, v]: t = "object" with v a function *)
(* from keys to JSON values, t = "number" with v the number, t = "string"  *)
(* or "boolean" with v a record holding the value.  SqlNull is SQL NULL    *)
(* (no jsonb value at all).                                                *)
(***************************************************************************)
JObject(f) == [t |-> "object", v |-> f]
JNumber(n) == [t |-> "number", v |-> n]
JString(str) == [t |-> "string", v |-> [s |-> str]]
JBoolean(b) == [t |-> "boolean", v |-> [b |-> b]]
SqlNull == [t |-> "sqlnull", v |-> [null |-> TRUE]]

EmptyObject == JObject(<<>>)

\* COALESCE(a, b)
Coalesce(a, b) == IF a = SqlNull THEN b ELSE a

\* a -> key: the member of an object, NULL when a is NULL, is no object or
\* has no such key.
Arrow(a, key) ==
  IF a.t = "object" /\ key \in DOMAIN a.v THEN a.v[key] ELSE SqlNull

\* An object with one key set.
WithKey(obj, key, val) ==
  JObject([x \in DOMAIN obj.v \cup {key} |-> IF x = key THEN val ELSE obj.v[x]])

\* jsonb_set(target, path, new_value) with create_if_missing = true: the last
\* key is replaced or added; when an earlier step of the path does not exist
\* (or is no object) the target is returned unchanged.
RECURSIVE JsonbSet(_, _, _)
JsonbSet(target, path, new_value) ==
  IF target.t # "object" THEN target
  ELSE IF Len(path) = 1 THEN WithKey(target, Head(path), new_value)
  ELSE IF Head(path) \in DOMAIN target.v
       THEN WithKey(target, Head(path),
                    JsonbSet(target.v[Head(path)], Tail(path), new_value))
       ELSE target

(***************************************************************************)
(* The migration "Add Average Profit Margin Setting" (two UPDATE           *)
(* statements over table restaurants).                                     *)
(***************************************************************************)
MarginPath == <<"blanketMode", "smartSettings", "estimatedProfitMarginPercent">>

\* settings->'blanketMode'->'smartSettings'->'estimatedProfitMarginPercent'
MarginOf(settings) ==
  Arrow(Arrow(Arrow(settings, "blanketMode"), "smartSettings"),
        "estimatedProfitMarginPercent")

\* The jsonb_build_object(...) of the second statement.
DefaultBlanketMode ==
  JObject([enabled |-> JBoolean(FALSE),
           type |-> JString("smart"),
           smartSettings |->
             JObject([profitAllocationPercent |-> JNumber(Fin(20, 1)),
                      estimatedProfitMarginPercent |-> JNumber(Fin(30, 1))]),
           manualSettings |-> JObject([pointsPerAED |-> JNumber(Fin(1, 10))]),
           spendSettings |-> JObject([pointsPerAED |-> JNumber(Fin(1, 5))])])

\* The WHERE clause and the SET expression of the first statement, on one row.
Statement1Where(settings) ==
  \/ settings = SqlNull
  \/ Arrow(settings, "blanketMode") = SqlNull
  \/ Arrow(Arrow(settings, "blanketMode"), "smartSettings") = SqlNull
  \/ MarginOf(settings) = SqlNull

Statement1Row(settings) ==
  IF Statement1Where(settings)
  THEN JsonbSet(Coalesce(settings, EmptyObject), MarginPath, JNumber(Fin(30, 1)))
  ELSE settings

\* A variant of Statement2Row without the WHERE clause.
Statement2RowEveryRow(settings) ==
  JsonbSet(Coalesce(settings, EmptyObject), <<"blanketMode">>, DefaultBlanketMode)

\* The second statement, on one row.
Statement2Row(settings) ==
  IF Arrow(settings, "blanketMode") = SqlNull
  THEN JsonbSet(Coalesce(settings, EmptyObject), <<"blanketMode">>, DefaultBlanketMode)
  ELSE settings

\* Rows of the table before the migration: NULL settings, no blanketMode (with
\* and without another key), blanketMode without smartSettings, smartSettings
\* without the margin, and smartSettings with a margin of 45.
OtherKey == [pointValueAED |-> JNumber(Fin(1, 20))]

BlanketWithoutSmart ==
  JObject([enabled |-> JBoolean(TRUE),
           type |-> JString("manual"),
           manualSettings |-> JObject([pointsPerAED |-> JNumber(Fin(1, 4))])])

BlanketWithoutMargin ==
  JObject([enabled |-> JBoolean(TRUE),
           type |-> JString("smart"),
           smartSettings |-> JObject([profitAllocationPercent |-> JNumber(Fin(25, 1))])])

BlanketWithMargin ==
  JObject([enabled |-> JBoolean(TRUE),
           type |-> JString("smart"),
           smartSettings |->
             JObject([profitAllocationPercent |-> JNumber(Fin(25, 1)),
                      estimatedProfitMarginPercent |-> JNumber(Fin(45, 1))])])

RowSettings ==
  {SqlNull, EmptyObject, JObject(OtherKey)}
    \cup {WithKey(JObject(OtherKey), "blanketMode", b) :
            b \in {BlanketWithoutSmart, BlanketWithoutMargin, BlanketWithMargin}}

MaxRows == 2

RowIds == 1..MaxRows

MigrationInit ==
  /\ restaurants \in [RowIds -> RowSettings]
  /\ mig = [original |-> restaurants, firstRun |-> NoTable]
  /\ pc = "run1_stmt1"
  /\ config = getDefaultConfig
  /\ orderAmount = Fin(0, 1)
  /\ customerTier = "bronze"
  /\ ret = NotCalled
  /\ ui = NoComponent

\* The first UPDATE, of the first run or of the second.
MigrationStatement1 ==
  /\ pc \in {"run1_stmt1", "run2_stmt1"}
  /\ restaurants' = [r \in DOMAIN restaurants |-> Statement1Row(restaurants[r])]
  /\ pc' = IF pc = "run1_stmt1" THEN "run1_stmt2" ELSE "run2_stmt2"
  /\ UNCHANGED <<mig, callVars, ui>>

\* The second UPDATE; the one of the first run ends that run.
MigrationStatement2 ==
  /\ pc \in {"run1_stmt2", "run2_stmt2"}
  /\ restaurants' = [r \in DOMAIN restaurants |-> Statement2Row(restaurants[r])]
  /\ mig' = IF pc = "run1_stmt2" THEN [mig EXCEPT !.firstRun = restaurants'] ELSE mig
  /\ pc' = IF pc = "run1_stmt2" THEN "run2_stmt1" ELSE "rerun_done"
  /\ UNCHANGED <<callVars, ui>>

MigrationNext == MigrationStatement1 \/ MigrationStatement2

MigrationSpec == MigrationInit /\ [][MigrationNext]_vars

\* The migration has run once (and maybe part of a second time).
Migrated == pc \in {"run2_stmt1", "run2_stmt2", "rerun_done"}

SettingsKeys == {"pointValueAED", "reward_engine", "blanketMode"}

(***************************************************************************)
(* C17.  After the migration has run, every restaurant row, whatever its   *)
(* prior settings, has settings.blanketMode.smartSettings                  *)
(* .estimatedProfitMarginPercent set, with value 30 where it was not set   *)
(* before.                                                                 *)
(***************************************************************************)
C17_EveryRowHasMargin ==
  Migrated =>
    \A r \in RowIds :
      /\ MarginOf(restaurants[r]) # SqlNull
      /\ MarginOf(mig.original[r]) = SqlNull =>
           MarginOf(restaurants[r]) = JNumber(Fin(30, 1))

(***************************************************************************)
(* C18.  The migration is backward compatible and idempotent: a row whose  *)
(* blanketMode already has estimatedProfitMarginPercent keeps its          *)
(* blanketMode unchanged; every settings key other than blanketMode is     *)
(* unchanged in every row; a second run changes nothing.                   *)
(***************************************************************************)
C18_BackwardCompatibleIdempotent ==
  /\ \A r \in RowIds :
       /\ MarginOf(mig.original[r]) # SqlNull =>
            Arrow(restaurants[r], "blanketMode") = Arrow(mig.original[r], "blanketMode")
       /\ \A key \in SettingsKeys \ {"blanketMode"} :
            Arrow(restaurants[r], key) = Arrow(mig.original[r], key)
  /\ pc \in {"run2_stmt2", "rerun_done"} => restaurants = mig.firstRun

\* After the second run: a row that had a margin of 45 and another key, beside
\* a row without blanketMode that received the default one.
C18_Witness ==
  /\ pc = "rerun_done"
  /\ \E r \in RowIds :
       /\ MarginOf(mig.original[r]) = JNumber(Fin(45, 1))
       /\ MarginOf(restaurants[r]) = JNumber(Fin(45, 1))
       /\ Arrow(restaurants[r], "pointValueAED") = JNumber(Fin(1, 20))
  /\ \E r \in RowIds :
       /\ Arrow(mig.original[r], "blanketMode") = SqlNull
       /\ Arrow(restaurants[r], "blanketMode") = DefaultBlanketMode

(***************************************************************************)
(* The settings form (RewardEngineSettings, src/unnamed/part_003) and the  *)
(* service calls it makes.  The form's config, previewAmount and           *)
(* previewTier are the variables config, orderAmount and customerTier; ui  *)
(* holds loading, saving and error, the configuration handed to the save   *)
(* that is running (saved), the configuration of the last save that        *)
(* succeeded (lastSaved) and the number of edits made.                     *)
(***************************************************************************)
\* JSON.stringify of a number: a non-finite number and null become null.
JNull == [t |-> "null", v |-> [null |-> TRUE]]

JsonValue(v) == IF v.k = "fin" THEN JNumber(v) ELSE JNull

\* JSON.stringify of an object of numbers: undefined and functions are left out.
JsonStringifyNumbers(obj) ==
  JObject([key \in {x \in DOMAIN obj : obj[x].k \notin {"undef", "fn"}} |->
             JsonValue(obj[key])])

\* JSON.stringify(config)
JsonStringify(cfg) ==
  JObject([key \in {x \in DOMAIN cfg : x = "mode" \/ cfg[x] # Undefined} |->
             CASE key = "mode" -> JString(cfg[key])
               [] key = "max_points_per_order" -> JsonValue(cfg[key])
               [] OTHER -> JsonStringifyNumbers(cfg[key])])

\* What the client gives back for a stored number, and for an object of them.
JsonParseValue(j) == IF j.t = "number" THEN j.v ELSE Null

JsonParseNumbers(j) == [key \in DOMAIN j.v |-> JsonParseValue(j.v[key])]

ConfigKeys ==
  {"mode", "smart_settings", "manual_settings", "tier_multipliers",
   "max_points_per_order"}

\* The stored reward_engine object as the RewardEngineConfig the client reads.
JsonParse(j) ==
  [key \in ConfigKeys |->
     IF key \notin DOMAIN j.v THEN Undefined
     ELSE CASE key = "mode" -> j.v[key].v.s
            [] key = "max_points_per_order" -> JsonParseValue(j.v[key])
            [] OTHER -> JsonParseNumbers(j.v[key])]

\* data?.settings?.reward_engine || null
RewardEngineOf(settings) ==
  LET j == Arrow(settings, "reward_engine")
  IN  IF j.t = "object" THEN JsonParse(j) ELSE Null

\* getRewardEngineConfig: null when the query fails or finds no row.
getRewardEngineConfig(table, restaurantId, failed) ==
  IF failed \/ restaurantId \notin DOMAIN table THEN Null
  ELSE RewardEngineOf(table[restaurantId])

\* The UPDATE of updateRewardEngineConfig without its .eq('id', restaurantId).
updateRewardEngineConfigEveryRow(table, restaurantId, cfg) ==
  [r \in DOMAIN table |->
     JsonbSet(Coalesce(table[r], EmptyObject), <<"reward_engine">>, JsonStringify(cfg))]

\* The UPDATE of updateRewardEngineConfig.
updateRewardEngineConfig(table, restaurantId, cfg) ==
  [r \in DOMAIN table |->
     IF r = restaurantId
     THEN JsonbSet(Coalesce(table[r], EmptyObject), <<"reward_engine">>,
                   JsonStringify(cfg))
     ELSE table[r]]

\* The text of a number input: empty (also what the browser reports for text
\* that is not a number), or a decimal literal -?whole.cents.
EmptyText == [empty |-> TRUE, neg |-> FALSE, whole |-> 0, cents |-> 0]

Literal(neg, whole, cents) ==
  [empty |-> FALSE, neg |-> neg, whole |-> whole, cents |-> cents]

\* parseFloat and parseInt of such a text; parseInt stops at the point.
parseFloat(text) ==
  IF text.empty THEN NaN
  ELSE LET s == IF text.neg THEN -1 ELSE 1
       IN  IF text.cents = 0 THEN Fin(s * text.whole, 1)
           ELSE IF text.cents % 10 = 0
                THEN Fin(s * (text.whole * 10 + text.cents \div 10), 10)
                ELSE Fin(s * (text.whole * 100 + text.cents), 100)

parseInt(text) ==
  IF text.empty THEN NaN
  ELSE Fin((IF text.neg THEN -1 ELSE 1) * text.whole, 1)

\* a || b
Or(a, b) == IF ToBoolean(a) THEN a ELSE b

\* { ...obj, ...updates }
Spread(obj, updates) ==
  [key \in DOMAIN obj \cup DOMAIN updates |->
     IF key \in DOMAIN updates THEN updates[key] ELSE obj[key]]

updateConfig(cfg, updates) == Spread(cfg, updates)

updateSmartSettings(cfg, updates) ==
  Spread(cfg, [smart_settings |-> Spread(cfg.smart_settings, updates)])

updateManualSettings(cfg, updates) ==
  Spread(cfg, [manual_settings |-> Spread(cfg.manual_settings, updates)])

updateTierMultipliers(cfg, tier, multiplier) ==
  Spread(cfg, [tier_multipliers |->
                 Spread(cfg.tier_multipliers, [t \in {tier} |-> multiplier])])

\* getPreviewPoints, evaluated when the form renders.
getPreviewPoints(cfg, previewAmount, previewTier) ==
  IF cfg = Null
  THEN [NotCalled EXCEPT !.value = Fin(0, 1)]
  ELSE calculatePointsPreview(cfg, previewAmount, previewTier)

\* The restaurant of the signed-in user, and another one.
OwnRestaurant == "own"

RestaurantIds == {"own", "other"}

\* A configuration stored by an earlier session.
StoredConfig ==
  [mode |-> "manual",
   smart_settings |-> [cost_price |-> Fin(5, 1), selling_price |-> Fin(20, 1),
                       profit_allocation_percent |-> Fin(50, 1)],
   manual_settings |-> [aed_value |-> Fin(10, 1), point_value |-> Fin(3, 2)],
   tier_multipliers |-> [bronze |-> Fin(1, 1), silver |-> Fin(5, 4),
                         gold |-> Fin(3, 2), platinum |-> Fin(2, 1)],
   max_points_per_order |-> Fin(500, 1)]

\* Settings of a row before the form opens: NULL, without reward_engine, with.
StoredSettings ==
  {SqlNull, JObject(OtherKey),
   WithKey(JObject(OtherKey), "reward_engine", JsonStringify(StoredConfig))}

\* Texts typed into the number inputs: "", "-5", "2.5".
TypedTexts == {EmptyText, Literal(TRUE, 5, 0), Literal(FALSE, 2, 50)}

MaxEdits == 2

\* The component mounts: loading, no configuration yet, nothing being saved.
FormInit ==
  /\ restaurants \in [RestaurantIds -> StoredSettings]
  /\ restaurants["other"] = JObject(OtherKey)
  /\ mig = NoTable
  /\ config = Null
  /\ orderAmount = Fin(100, 1)
  /\ customerTier = "bronze"
  /\ ret = NotCalled
  /\ pc = "form"
  /\ ui = [loading |-> TRUE, saving |-> FALSE, error |-> "", saved |-> Null,
           lastSaved |-> Null, edits |-> 0]

\* The form is on screen: the component renders its inputs and Save button.
FormShown == pc = "form" /\ ~ui.loading /\ config # Null

\* fetchConfig, run by the effect: the stored configuration or the default one.
fetchConfig ==
  /\ pc = "form" /\ ui.loading
  /\ \E failed \in BOOLEAN :
       config' = LET engineConfig ==
                       getRewardEngineConfig(restaurants, OwnRestaurant, failed)
                 IN  IF engineConfig = Null THEN getDefaultConfig ELSE engineConfig
  /\ ui' = [ui EXCEPT !.loading = FALSE]
  /\ ret' = getPreviewPoints(config', orderAmount, customerTier)
  /\ UNCHANGED <<orderAmount, customerTier, pc, dbVars>>

\* An input handler replaces the configuration; the form renders again.
Edit(newConfig) ==
  /\ FormShown /\ ui.edits < MaxEdits
  /\ config' = newConfig
  /\ ui' = [ui EXCEPT !.edits = @ + 1]
  /\ ret' = getPreviewPoints(config', orderAmount, customerTier)
  /\ UNCHANGED <<orderAmount, customerTier, pc, dbVars>>

\* The two mode buttons.
SelectMode == \E m \in {"smart", "manual"} : Edit(updateConfig(config, [mode |-> m]))

\* The cost price, selling price and profit allocation inputs (smart mode).
ChangeSmartInput ==
  /\ FormShown
  /\ config.mode = "smart"
  /\ \E field \in {"cost_price", "selling_price", "profit_allocation_percent"},
        text \in TypedTexts :
       Edit(updateSmartSettings(config,
              [f \in {field} |-> Or(parseFloat(text), Fin(0, 1))]))

\* The AED value and point value inputs (manual mode).
ChangeManualInput ==
  /\ FormShown
  /\ config.mode = "manual"
  /\ \E text \in TypedTexts :
       \/ Edit(updateManualSettings(config,
                 [aed_value |-> Or(parseFloat(text), Fin(1, 1))]))
       \/ Edit(updateManualSettings(config,
                 [point_value |-> Or(parseFloat(text), Fin(0, 1))]))

\* The maximum points per order input.
ChangeMaxPoints ==
  \E text \in TypedTexts :
    Edit(updateConfig(config,
           [max_points_per_order |-> Or(parseInt(text), Fin(1000, 1))]))

\* The multiplier input of one of the tiers the configuration lists.
ChangeTierMultiplier ==
  /\ FormShown
  /\ \E tier \in DOMAIN config.tier_multipliers, text \in TypedTexts :
       Edit(updateTierMultipliers(config, tier, Or(parseFloat(text), Fin(1, 1))))

\* The preview's order amount input and tier select.
ChangePreview ==
  /\ FormShown /\ ui.edits < MaxEdits
  /\ \/ \E text \in TypedTexts :
          /\ orderAmount' = Or(parseFloat(text), Fin(0, 1))
          /\ customerTier' = customerTier
     \/ \E tier \in KnownTiers :
          /\ customerTier' = tier
          /\ orderAmount' = orderAmount
  /\ ui' = [ui EXCEPT !.edits = @ + 1]
  /\ ret' = getPreviewPoints(config, orderAmount', customerTier')
  /\ UNCHANGED <<config, pc, dbVars>>

\* handleSave up to its await: the Save button is disabled while saving.
handleSave ==
  /\ FormShown /\ ~ui.saving
  /\ ui' = [ui EXCEPT !.saving = TRUE, !.error = "", !.saved = config]
  /\ UNCHANGED <<callVars, pc, dbVars>>

\* The update resolves: handleSave's finally.
SaveResolved ==
  /\ pc = "form" /\ ui.saving
  /\ restaurants' = updateRewardEngineConfig(restaurants, OwnRestaurant, ui.saved)
  /\ ui' = [ui EXCEPT !.saving = FALSE, !.saved = Null, !.lastSaved = ui.saved]
  /\ UNCHANGED <<callVars, pc, mig>>

\* The update fails: handleSave's catch and finally.
SaveRejected ==
  /\ pc = "form" /\ ui.saving
  /\ ui' = [ui EXCEPT !.saving = FALSE, !.saved = Null,
                      !.error = "Failed to save configuration"]
  /\ UNCHANGED <<callVars, pc, dbVars>>

FormNext ==
  \/ fetchConfig
  \/ SelectMode
  \/ ChangeSmartInput
  \/ ChangeManualInput
  \/ ChangeMaxPoints
  \/ ChangeTierMultiplier
  \/ ChangePreview
  \/ handleSave
  \/ SaveResolved
  \/ SaveRejected

FormSpec == FormInit /\ [][FormNext]_vars

(***************************************************************************)
(* C14.  After any sequence of edits in the settings form, the edited      *)
(* configuration satisfies the data model: aed_value > 0, point_value >=   *)
(* 0, cost_price >= 0, selling_price >= 0, profit_allocation_percent in    *)
(* [0, 100], every tier multiplier positive, max_points_per_order an       *)
(* integer >= 1.                                                           *)
(***************************************************************************)
C14_EditsKeepDataModel == FormShown => SatisfiesDataModel(config)

(***************************************************************************)
(* C15.  The persisted reward-engine configuration of a restaurant changes *)
(* only in the step that completes a successful save of that restaurant's  *)
(* form (edits, previews, fetches and failed saves leave it unchanged),    *)
(* and once a save has succeeded the persisted configuration is the        *)
(* configuration of the last successful save.                              *)
(***************************************************************************)
C15_PersistedOnlyBySave ==
  [][/\ \A r \in RestaurantIds :
          RewardEngineOf(restaurants'[r]) # RewardEngineOf(restaurants[r]) =>
            /\ r = OwnRestaurant
            /\ ui.saving /\ ~ui'.saving /\ ui'.error = ""
     /\ ui'.lastSaved # Null =>
          RewardEngineOf(restaurants'[OwnRestaurant]) = ui'.lastSaved]_vars

\* A configuration edited in the form was saved, then the form was edited
\* again: the stored one is still the saved one, beside the row's other key.
C15_Witness ==
  /\ FormShown /\ ~ui.saving
  /\ ui.lastSaved \notin {Null, getDefaultConfig, StoredConfig}
  /\ config # ui.lastSaved
  /\ RewardEngineOf(restaurants[OwnRestaurant]) = ui.lastSaved
  /\ Arrow(restaurants[OwnRestaurant], "pointValueAED") = JNumber(Fin(1, 20))

(***************************************************************************)
(* Several callers of calculatePointsPreview on one configuration.  Each   *)
(* call has its own frame (its arguments, its locals and where it stands); *)
(* the calls advance one statement at a time, in any order.  ui maps each  *)
(* caller to its frame; ret holds the locals of the statement that ran     *)
(* last.                                                                   *)
(***************************************************************************)
MaxCallers == 2

Callers == 1..MaxCallers

\* Configurations the callers share: the default one, a smart-mode one, one
\* without manual_settings and one without tier_multipliers.
SharedConfigs ==
  {getDefaultConfig,
   [getDefaultConfig EXCEPT
      !.mode = "smart",
      !.smart_settings = [cost_price |-> Fin(5, 1), selling_price |-> Fin(10, 1),
                          profit_allocation_percent |-> Fin(20, 1)],
      !.max_points_per_order = Fin(10, 1)],
   [getDefaultConfig EXCEPT !.manual_settings = Undefined],
   [getDefaultConfig EXCEPT !.tier_multipliers = Undefined]}

\* The frame of a call that has not run a statement yet.
Frame(amount, tier) ==
  [at |-> "base", orderAmount |-> amount, customerTier |-> tier, locals |-> NotCalled]

ConcurrentInit ==
  /\ config \in SharedConfigs
  /\ ui \in [Callers -> {Frame(amount, tier) :
                           amount \in {Fin(25, 2), Fin(100, 1)},
                           tier \in {"bronze", "gold"}}]
  /\ ret = NotCalled
  /\ pc = "calls"
  /\ orderAmount = Fin(0, 1)
  /\ customerTier = "bronze"
  /\ NoDatabase

\* A variant in which basePoints is kept in a field the calls share, not in a
\* local of the call.
SharedBasePoints(c) == ret.basePoints

\* Line 98: basePoints is a local of the call.
LocalBasePoints(c) == ui[c].locals.basePoints

\* The statement of caller c ends with these locals, at this place.
Advance(c, place, locals) ==
  /\ ui' = [ui EXCEPT ![c] = [@ EXCEPT !.at = place, !.locals = locals]]
  /\ ret' = locals
  /\ UNCHANGED <<config, orderAmount, customerTier, pc, dbVars>>

\* Lines 98-112: the branch on the mode computes basePoints, or throws.
ComputeBasePoints(c) ==
  /\ pc = "calls" /\ ui[c].at = "base"
  /\ LET settings == IF config.mode = "smart" THEN config.smart_settings
                     ELSE config.manual_settings
     IN  IF settings = Undefined THEN Advance(c, "returned", Thrown)
         ELSE Advance(c, "tier",
                [ui[c].locals EXCEPT !.basePoints =
                   IF config.mode = "smart"
                   THEN SmartBasePoints(config.smart_settings, ui[c].orderAmount)
                   ELSE ManualBasePoints(config.manual_settings, ui[c].orderAmount)])

\* Lines 115-116: the tier multiplier and the final points, or a throw.
ApplyTierMultiplier(c) ==
  /\ pc = "calls" /\ ui[c].at = "tier"
  /\ IF config.tier_multipliers = Undefined THEN Advance(c, "returned", Thrown)
     ELSE LET tierMultiplier ==
                TierMultiplier(config.tier_multipliers, ui[c].customerTier)
          IN  Advance(c, "clamp",
                [ui[c].locals EXCEPT
                   !.basePoints = LocalBasePoints(c),
                   !.tierMultiplier = tierMultiplier,
                   !.finalPoints = FinalPoints(LocalBasePoints(c), tierMultiplier)])

\* Line 119: the return.
ApplyMaximum(c) ==
  /\ pc = "calls" /\ ui[c].at = "clamp"
  /\ Advance(c, "returned",
       [ui[c].locals EXCEPT
          !.value = Clamp(ui[c].locals.finalPoints, config.max_points_per_order)])

ConcurrentNext ==
  \E c \in Callers :
    \/ ComputeBasePoints(c)
    \/ ApplyTierMultiplier(c)
    \/ ApplyMaximum(c)

ConcurrentSpec == ConcurrentInit /\ [][ConcurrentNext]_vars

(***************************************************************************)
(* C16.  Callers of calculatePointsPreview that share a configuration and  *)
(* run interleaved: every call that has returned has produced what the     *)
(* call alone produces for its arguments, and no step of any call changes  *)
(* the configuration.                                                      *)
(***************************************************************************)
C16_ConcurrentCallsIsolated ==
  [][/\ config' = config
     /\ \A c \in Callers :
          ui'[c].at = "returned" =>
            ui'[c].locals =
              calculatePointsPreview(config', ui'[c].orderAmount, ui'[c].customerTier)]_vars

\* A call returns its points while another call, with other arguments and
\* other base points, stands between two of its statements.
C16_Witness ==
  /\ pc = "calls"
  /\ \E c, e \in Callers :
       /\ ui[c].at = "returned" /\ ~ui[c].locals.threw
       /\ ret = ui[c].locals
       /\ ui[e].at = "clamp"
       /\ ui[c].locals.basePoints # ui[e].locals.basePoints
       /\ ui[c].locals.value # Fin(0, 1)

(***************************************************************************)
(* calculatePointsForOrder: one remote call, whose outcome the function    *)
(* does not control.  The call rejects, or resolves to { data, error }.    *)
(* ui holds the restaurant id of the call and the outcome of the remote    *)
(* call once it has settled.                                               *)
(***************************************************************************)
\* What the remote function may answer: nothing, 0, and other numbers.
RpcData == {Null, Fin(0, 1), Fin(42, 1), Fin(-3, 1), Fin(5, 2)}

RpcOutcomes == [rejected : BOOLEAN, error : BOOLEAN, data : RpcData]

NotSettled == [rejected |-> FALSE, error |-> FALSE, data |-> Undefined]

\* A variant of calculatePointsForOrder that returns data as it is.
calculatePointsForOrderNoDefault(outcome) ==
  LET tryBlock == IF outcome.rejected \/ outcome.error THEN Thrown
                  ELSE [NotCalled EXCEPT !.value = outcome.data]
  IN  IF tryBlock.threw THEN [NotCalled EXCEPT !.value = Fin(0, 1)] ELSE tryBlock

\* Lines 77-90: the try block throws when the call rejects or answers an
\* error, else yields data || 0; the catch block returns 0.
calculatePointsForOrder(outcome) ==
  LET tryBlock == IF outcome.rejected \/ outcome.error THEN Thrown
                  ELSE [NotCalled EXCEPT !.value = Or(outcome.data, Fin(0, 1))]
  IN  IF tryBlock.threw THEN [NotCalled EXCEPT !.value = Fin(0, 1)] ELSE tryBlock

RpcInit ==
  /\ ui \in [restaurantId : RestaurantIds, outcome : {NotSettled}]
  /\ orderAmount \in OrderAmounts
  /\ customerTier \in CustomerTiers
  /\ config = getDefaultConfig
  /\ ret = NotCalled
  /\ pc = "rpc_ready"
  /\ NoDatabase

\* The function is called and sends the request.
SendRpc ==
  /\ pc = "rpc_ready"
  /\ pc' = "rpc_awaiting"
  /\ UNCHANGED <<callVars, dbVars, ui>>

\* The remote call settles and the function resolves.
RpcSettled ==
  /\ pc = "rpc_awaiting"
  /\ \E outcome \in RpcOutcomes :
       /\ ui' = [ui EXCEPT !.outcome = outcome]
       /\ ret' = calculatePointsForOrder(outcome)
  /\ pc' = "rpc_resolved"
  /\ UNCHANGED <<config, orderAmount, customerTier, dbVars>>

RpcNext == SendRpc \/ RpcSettled

RpcSpec == RpcInit /\ [][RpcNext]_vars

(***************************************************************************)
(* C19.  calculatePointsForOrder never fails: when the remote call         *)
(* rejects, answers an error or answers no data, the function resolves to  *)
(* 0; otherwise it resolves to the value the remote call answered.         *)
(***************************************************************************)
C19_PointsForOrderNeverFails ==
  pc = "rpc_resolved" =>
    /\ ~ret.threw
    /\ IF ui.outcome.rejected \/ ui.outcome.error \/ ui.outcome.data = Null
       THEN ret.value = Fin(0, 1)
       ELSE ret.value = ui.outcome.data

\* The remote call answered an error beside a number; the function gave 0.
C19_Witness ==
  /\ pc = "rpc_resolved"
  /\ ~ui.outcome.rejected /\ ui.outcome.error /\ ui.outcome.data = Fin(42, 1)
  /\ ret.value = Fin(0, 1)

(***************************************************************************)
(* Customer onboarding (CustomerOnboarding, src/unnamed/part_002).  ui     *)
(* holds step, formData (first and last name as one field), error,         *)
(* existingCustomer, smsCodeSent, and the last call of                     *)
(* CustomerService.createCustomer: which handler made it, with which phone *)
(* and with which code in the form.  A handler runs as one step, its       *)
(* awaits included.                                                        *)
(***************************************************************************)
\* Texts typed into the inputs.
Emails == {"", "abc", "a@b.c"}

\* /\S+@\S+\.\S+/.test(email)
ValidEmail(email) == email = "a@b.c"

EmailLength(email) == IF email = "" THEN 0 ELSE IF email = "abc" THEN 3 ELSE 5

Names == {"", "Al"}

Phones == {"", "0501234567"}

\* The code input keeps digits only, six at most.
SmsCodes == {<<>>, <<1, 2, 3>>, <<1, 2, 3, 4, 5, 6>>}

NoCreate == [by |-> "nobody", phone |-> "", smsCode |-> <<>>]

OnboardingInit ==
  /\ ui = [step |-> 0,
           formData |-> [email |-> "", names |-> "", phone |-> "", smsCode |-> <<>>],
           error |-> "", existingCustomer |-> FALSE, smsCodeSent |-> FALSE,
           create |-> NoCreate]
  /\ pc = "onboarding"
  /\ config = getDefaultConfig
  /\ orderAmount = Fin(0, 1)
  /\ customerTier = "bronze"
  /\ ret = NotCalled
  /\ NoDatabase

OnboardingIdle == UNCHANGED <<callVars, dbVars>>

\* The component is mounted and shows this step.
AtStep(n) == pc = "onboarding" /\ ui.step = n

\* Line 787: Get Started.
GetStarted ==
  /\ AtStep(0)
  /\ ui' = [ui EXCEPT !.step = 1]
  /\ pc' = pc /\ OnboardingIdle

\* Lines 813-816: the email input, with handleEmailCheck's lookup.
ChangeEmail ==
  /\ AtStep(1)
  /\ \E email \in Emails, found \in BOOLEAN :
       ui' = [ui EXCEPT !.formData.email = email,
                        !.error = "",
                        !.existingCustomer =
                           IF EmailLength(email) < 3 THEN @ ELSE found]
  /\ pc' = pc /\ OnboardingIdle

\* Line 843: continue to login or to signup.
Continue ==
  /\ AtStep(1) /\ ui.formData.email # ""
  /\ ui' = [ui EXCEPT !.step = IF ui.existingCustomer THEN 2 ELSE 3]
  /\ pc' = pc /\ OnboardingIdle

\* Lines 923-926 and 1046-1049: the links between login and signup.
SwitchAuthMode ==
  /\ AtStep(2) \/ AtStep(3)
  /\ ui' = [ui EXCEPT !.step = IF ui.step = 2 THEN 3 ELSE 2]
  /\ pc' = pc /\ OnboardingIdle

\* handleLogin, a password being typed: an existing customer completes the
\* onboarding.
handleLogin ==
  /\ AtStep(2) /\ ui.formData.email # ""
  /\ \E found \in BOOLEAN :
       IF found
       THEN pc' = "complete" /\ ui' = ui
       ELSE pc' = pc /\ ui' = [ui EXCEPT !.error = "Invalid email or password"]
  /\ OnboardingIdle

\* The name and phone inputs of the signup step.
ChangeSignupInput ==
  /\ AtStep(3)
  /\ \/ \E names \in Names : ui' = [ui EXCEPT !.formData.names = names, !.error = ""]
     \/ \E phone \in Phones : ui' = [ui EXCEPT !.formData.phone = phone, !.error = ""]
  /\ pc' = pc /\ OnboardingIdle

\* CustomerService.createCustomer is called by this handler; it resolves and
\* onComplete ends the onboarding, or it rejects and the handler shows why.
CreateCustomer(handler, phone, failure) ==
  \E resolved \in BOOLEAN :
    /\ ui' = [ui EXCEPT
                !.create = [by |-> handler, phone |-> phone,
                            smsCode |-> ui.formData.smsCode],
                !.error = IF resolved THEN @ ELSE failure]
    /\ pc' = IF resolved THEN "complete" ELSE pc

\* handleSignup, behind its button (lines 588-624, 1030-1031).
handleSignup ==
  /\ AtStep(3) /\ ui.formData.names # "" /\ ui.formData.email # ""
  /\ IF ~ValidEmail(ui.formData.email)
     THEN /\ ui' = [ui EXCEPT !.error = "Please enter a valid email address"]
          /\ pc' = pc
     ELSE IF ui.formData.phone # "" /\ ~ui.smsCodeSent
     THEN /\ ui' = [ui EXCEPT !.smsCodeSent = TRUE, !.step = 4]
          /\ pc' = pc
     ELSE CreateCustomer("handleSignup", ui.formData.phone, "Signup failed")
  /\ OnboardingIdle

\* The verification code input (line 1078).
ChangeSmsCode ==
  /\ AtStep(4)
  /\ \E code \in SmsCodes : ui' = [ui EXCEPT !.formData.smsCode = code, !.error = ""]
  /\ pc' = pc /\ OnboardingIdle

\* handleSmsVerification, behind its button (lines 626-652, 1086-1087).
handleSmsVerification ==
  /\ AtStep(4) /\ Len(ui.formData.smsCode) = 6
  /\ CreateCustomer("handleSmsVerification", ui.formData.phone, "Verification failed")
  /\ OnboardingIdle

\* resendSmsCode (lines 654-666).
resendSmsCode ==
  /\ AtStep(4)
  /\ ui' = [ui EXCEPT !.smsCodeSent = TRUE, !.error = ""]
  /\ pc' = pc /\ OnboardingIdle

\* The back arrow of the header (lines 683-690).
GoBack ==
  /\ pc = "onboarding" /\ ui.step > 0
  /\ ui' = [ui EXCEPT !.step = IF ui.step - 1 > 0 THEN ui.step - 1 ELSE 0]
  /\ pc' = pc /\ OnboardingIdle

OnboardingNext ==
  \/ GetStarted
  \/ ChangeEmail
  \/ Continue
  \/ SwitchAuthMode
  \/ handleLogin
  \/ ChangeSignupInput
  \/ handleSignup
  \/ ChangeSmsCode
  \/ handleSmsVerification
  \/ resendSmsCode
  \/ GoBack

OnboardingSpec == OnboardingInit /\ [][OnboardingNext]_vars

(***************************************************************************)
(* C20.  In customer onboarding, createCustomer is called with a phone     *)
(* number only by handleSmsVerification, a 6-digit code being submitted:   *)
(* no sequence of signup, back and resend actions calls it with a phone    *)
(* number otherwise.                                                       *)
(***************************************************************************)
C20_PhoneOnlyAfterSmsVerification ==
  (pc \in {"onboarding", "complete"} /\ ui.create.phone # "") =>
    /\ ui.create.by = "handleSmsVerification"
    /\ Len(ui.create.smsCode) = 6

(***************************************************************************)
(* getRevenueBreakdown: the loop that lists the months of the date range   *)
(* (rewardEngineService.ts, lines 343-357).  A Date is [y, m, d] with m in *)
(* 0..11 as in JavaScript; start and end carry the same time of day.  ui   *)
(* holds dateRange, the loop's current date and the months pushed so far,  *)
(* each with the year and month of its monthStart.                         *)
(***************************************************************************)
IsLeapYear(y) == (y % 4 = 0 /\ y % 100 # 0) \/ y % 400 = 0

DaysInMonth(y, m) ==
  IF m = 1 THEN (IF IsLeapYear(y) THEN 29 ELSE 28)
  ELSE IF m \in {3, 5, 8, 10} THEN 30 ELSE 31

\* new Date(y, m, d) for m in 0..12 and d in 1..31: a month past December is
\* January of the next year, a day past the end of the month runs into the
\* next month.
NewDate(y, m, d) ==
  LET yy == IF m > 11 THEN y + 1 ELSE y
      mm == IF m > 11 THEN m - 12 ELSE m
      dim == DaysInMonth(yy, mm)
  IN  IF d <= dim THEN [y |-> yy, m |-> mm, d |-> d]
      ELSE IF mm = 11 THEN [y |-> yy + 1, m |-> 0, d |-> d - dim]
      ELSE [y |-> yy, m |-> mm + 1, d |-> d - dim]

\* current.setMonth(current.getMonth() + 1)
SetNextMonth(current) == NewDate(current.y, current.m + 1, current.d)

\* a <= b on dates
DateLeq(a, b) ==
  \/ a.y < b.y
  \/ a.y = b.y /\ a.m < b.m
  \/ a.y = b.y /\ a.m = b.m /\ a.d <= b.d

\* The years the ranges are drawn from: FirstYear .. FirstYear + MaxYears.
MaxYears == 1

Years == 2023..(2023 + MaxYears)

Dates ==
  {date \in [y : Years, m : 0..11, d : {1, 15, 28, 29, 30, 31}] :
     date.d <= DaysInMonth(date.y, date.m)}

BreakdownInit ==
  /\ ui \in {[start |-> range[1], end |-> range[2], current |-> range[1],
               months |-> <<>>] :
               range \in {r \in Dates \X Dates : DateLeq(r[1], r[2])}}
  /\ pc = "months_loop"
  /\ config = getDefaultConfig
  /\ orderAmount = Fin(0, 1)
  /\ customerTier = "bronze"
  /\ ret = NotCalled
  /\ NoDatabase

\* One turn of the while loop: push the month of current, advance current.
PushMonth ==
  /\ pc = "months_loop" /\ DateLeq(ui.current, ui.end)
  /\ ui' = [ui EXCEPT
              !.months = Append(@, [y |-> ui.current.y, m |-> ui.current.m]),
              !.current = SetNextMonth(ui.current)]
  /\ UNCHANGED <<pc, callVars, dbVars>>

\* The loop ends; the breakdown has one entry per month pushed, in order.
ReturnBreakdown ==
  /\ pc = "months_loop" /\ ~DateLeq(ui.current, ui.end)
  /\ pc' = "months_returned"
  /\ UNCHANGED <<ui, callVars, dbVars>>

BreakdownNext == PushMonth \/ ReturnBreakdown

BreakdownSpec == BreakdownInit /\ [][BreakdownNext]_vars

\* Months counted from year 0.
MonthIndex(date) == date.y * 12 + date.m

(***************************************************************************)
(* C21.  getRevenueBreakdown returns exactly one entry, in chronological   *)
(* order, for each calendar month that overlaps [start, end], for every    *)
(* start <= end.                                                           *)
(***************************************************************************)
C21_OneEntryPerMonth ==
  pc = "months_returned" =>
    /\ Len(ui.months) = MonthIndex(ui.end) - MonthIndex(ui.start) + 1
    /\ \A i \in 1..Len(ui.months) :
         MonthIndex(ui.months[i]) = MonthIndex(ui.start) + i - 1

(***************************************************************************)
(* The customer wallet (CustomerWallet, src/unnamed/part_001).  ui holds   *)
(* the route's restaurantSlug and the authenticated restaurant (present or *)
(* not), the component's state (restaurant, customer, rewards, loading,    *)
(* showOnboarding, selectedReward, showRedemptionModal), the restaurant    *)
(* that the running fetchRestaurant closed over, how that fetch ended,     *)
(* whether navigate('/') was called, the localStorage entry                *)
(* customer_<restaurantId>, the customer's points on the server, the runs  *)
(* of handleRedemption and the last call of RewardService.redeemReward.    *)
(***************************************************************************)
NoCustomer == [id |-> "", total_points |-> 0]

NoReward == [id |-> "", points_required |-> 0]

\* Points of a customer who completes the onboarding or is found in storage.
CustomerPoints == {50, 100}

Customers == [id : {"c1"}, total_points : CustomerPoints]

\* The rewards the restaurant offers.
Rewards ==
  {[id |-> "coffee", points_required |-> 30],
   [id |-> "dessert", points_required |-> 80]}

NoRedeem == [called |-> FALSE, points_required |-> 0, total_points |-> 0]

WalletInit ==
  /\ ui \in [restaurantSlug : BOOLEAN, authRestaurant : BOOLEAN,
             restaurant : {""}, closure : {""},
             customer : {NoCustomer}, storage : Customers \cup {NoCustomer},
             loading : {TRUE}, showOnboarding : {FALSE}, navigated : {FALSE},
             fetchEnded : {"no"}, rewards : {{}},
             selectedReward : {NoReward}, showRedemptionModal : {FALSE},
             serverPoints : {0}, runs : {<<>>}, lastRedeem : {NoRedeem}]
  /\ pc = "wallet_mounted"
  /\ config = getDefaultConfig
  /\ orderAmount = Fin(0, 1)
  /\ customerTier = "bronze"
  /\ ret = NotCalled
  /\ NoDatabase

WalletIdle == UNCHANGED <<callVars, dbVars>>

\* The effect of lines 77-88, with a slug and no authenticated restaurant:
\* fetchRestaurant starts, closing over the restaurant of this render.
StartFetchRestaurant ==
  /\ pc = "wallet_mounted" /\ ui.restaurantSlug /\ ~ui.authRestaurant
  /\ ui' = [ui EXCEPT !.loading = TRUE, !.closure = ui.restaurant]
  /\ pc' = "wallet_fetching"
  /\ WalletIdle

\* The effect of lines 77-88 in demo mode: no slug, an authenticated restaurant.
UseAuthRestaurant ==
  /\ pc = "wallet_mounted" /\ ~ui.restaurantSlug /\ ui.authRestaurant
  /\ ui' = [ui EXCEPT !.restaurant = "auth", !.showOnboarding = TRUE,
                      !.loading = FALSE]
  /\ pc' = "wallet"
  /\ WalletIdle

\* fetchRestaurant after its await (lines 100-127).  restaurantId is read from
\* the restaurant the function closed over, not from the row just fetched.
FetchRestaurantSettled ==
  /\ pc = "wallet_fetching"
  /\ \E failed \in BOOLEAN :
       IF failed
       THEN ui' = [ui EXCEPT !.navigated = TRUE, !.fetchEnded = "failed",
                             !.loading = FALSE]
       ELSE LET restaurantId == ui.closure
            IN  IF restaurantId = ""
                THEN ui' = [ui EXCEPT !.restaurant = "slug",
                                      !.fetchEnded = "succeeded",
                                      !.loading = FALSE]
                ELSE IF ui.storage # NoCustomer
                THEN ui' = [ui EXCEPT !.restaurant = "slug",
                                      !.customer = ui.storage,
                                      !.fetchEnded = "succeeded",
                                      !.loading = FALSE]
                ELSE ui' = [ui EXCEPT !.restaurant = "slug",
                                      !.showOnboarding = TRUE,
                                      !.fetchEnded = "succeeded",
                                      !.loading = FALSE]
  /\ pc' = "wallet"
  /\ WalletIdle

\* The onboarding screen is on (lines 228-235).
OnboardingShown == pc = "wallet" /\ ~ui.loading /\ ui.showOnboarding

\* The wallet itself is on: not loading, no onboarding, no error screen.
WalletShown ==
  /\ pc = "wallet" /\ ~ui.loading /\ ~ui.showOnboarding
  /\ ui.customer # NoCustomer /\ ui.restaurant # ""

\* handleOnboardingComplete (lines 146-150); the customer's points are the
\* ones the server holds.
handleOnboardingComplete ==
  /\ OnboardingShown
  /\ \E customerData \in Customers :
       ui' = [ui EXCEPT !.customer = customerData, !.showOnboarding = FALSE,
                        !.storage = customerData,
                        !.serverPoints = customerData.total_points]
  /\ pc' = pc /\ WalletIdle

\* The effect of lines 90-94: fetchCustomerData loads the rewards.
fetchCustomerData ==
  /\ pc = "wallet" /\ ui.restaurant # "" /\ ui.customer # NoCustomer
  /\ ui.rewards = {}
  /\ ui' = [ui EXCEPT !.rewards = Rewards]
  /\ pc' = pc /\ WalletIdle

\* A Redeem button (lines 418-431, 517-530): disabled when the customer has
\* fewer points than the reward requires.
SelectReward ==
  /\ WalletShown /\ ~ui.showRedemptionModal
  /\ \E reward \in ui.rewards :
       /\ ~(ui.customer.total_points < reward.points_required)
       /\ ui' = [ui EXCEPT !.selectedReward = reward, !.showRedemptionModal = TRUE]
  /\ pc' = pc /\ WalletIdle

\* The modal is mounted (line 709).
ModalShown ==
  WalletShown /\ ui.showRedemptionModal /\ ui.selectedReward # NoReward

\* onClose of the modal (lines 715-718).
CloseModal ==
  /\ ModalShown
  /\ ui' = [ui EXCEPT !.showRedemptionModal = FALSE, !.selectedReward = NoReward]
  /\ pc' = pc /\ WalletIdle

\* The handleRedemption runs started in all: MaxRedemptions at most.
MaxRedemptions == 2

\* onConfirm of the modal: handleRedemption(selectedReward) starts and calls
\* RewardService.redeemReward (lines 152-156, 714).
ConfirmRedemption ==
  /\ ModalShown /\ Len(ui.runs) < MaxRedemptions
  /\ ui' = [ui EXCEPT
              !.runs = Append(@, [stage |-> "redeeming", reward |-> ui.selectedReward]),
              !.lastRedeem = [called |-> TRUE,
                              points_required |-> ui.selectedReward.points_required,
                              total_points |-> ui.customer.total_points]]
  /\ pc' = pc /\ WalletIdle

\* redeemReward settles: the server takes the points, or the call fails and
\* the catch block logs it (lines 156, 168-170).
RedeemSettled ==
  /\ pc = "wallet"
  /\ \E i \in 1..Len(ui.runs) :
       /\ ui.runs[i].stage = "redeeming"
       /\ \/ /\ ui.serverPoints >= ui.runs[i].reward.points_required
             /\ ui' = [ui EXCEPT
                         !.serverPoints = @ - ui.runs[i].reward.points_required,
                         !.runs[i].stage = "refreshing"]
          \/ ui' = [ui EXCEPT !.runs[i].stage = "done"]
  /\ pc' = pc /\ WalletIdle

\* getCustomer settles (lines 159-163): the customer of the wallet and of the
\* storage become the server's, or the call fails.
CustomerRefreshed ==
  /\ pc = "wallet"
  /\ \E i \in 1..Len(ui.runs) :
       /\ ui.runs[i].stage = "refreshing"
       /\ \/ ui' = [ui EXCEPT
                      !.customer = [id |-> "c1", total_points |-> ui.serverPoints],
                      !.storage = [id |-> "c1", total_points |-> ui.serverPoints],
                      !.runs[i].stage = "reloading"]
          \/ ui' = [ui EXCEPT !.runs[i].stage = "done"]
  /\ pc' = pc /\ WalletIdle

\* fetchCustomerData settles and the modal is closed (lines 165-167).
CustomerDataReloaded ==
  /\ pc = "wallet"
  /\ \E i \in 1..Len(ui.runs) :
       /\ ui.runs[i].stage = "reloading"
       /\ ui' = [ui EXCEPT !.rewards = Rewards,
                           !.showRedemptionModal = FALSE,
                           !.selectedReward = NoReward,
                           !.runs[i].stage = "done"]
  /\ pc' = pc /\ WalletIdle

\* handleSignOut (lines 173-178), from the menu of the wallet's header.
handleSignOut ==
  /\ WalletShown /\ ~ui.showRedemptionModal
  /\ ui' = [ui EXCEPT !.customer = NoCustomer, !.showOnboarding = TRUE,
                      !.storage = NoCustomer]
  /\ pc' = pc /\ WalletIdle

WalletNext ==
  \/ StartFetchRestaurant
  \/ UseAuthRestaurant
  \/ FetchRestaurantSettled
  \/ handleOnboardingComplete
  \/ fetchCustomerData
  \/ SelectReward
  \/ CloseModal
  \/ ConfirmRedemption
  \/ RedeemSettled
  \/ CustomerRefreshed
  \/ CustomerDataReloaded
  \/ handleSignOut

WalletSpec == WalletInit /\ [][WalletNext]_vars

\* The effect runs once the component is mounted, and a fetch that was
\* started settles.
WalletLiveSpec ==
  /\ WalletSpec
  /\ WF_vars(StartFetchRestaurant)
  /\ WF_vars(UseAuthRestaurant)
  /\ WF_vars(FetchRestaurantSettled)

(***************************************************************************)
(* C22.  In the customer wallet, whether restaurantSlug and the            *)
(* authenticated restaurant are present or absent, the loading flag        *)
(* eventually becomes false.                                               *)
(***************************************************************************)
C22_LoadingEventuallyEnds == <>(~ui.loading)

(***************************************************************************)
(* C23.  When the wallet is opened by restaurant slug and the restaurant   *)
(* fetch has succeeded, the saved customer is restored from localStorage   *)
(* or, when none is saved, showOnboarding is true: never customer = null   *)
(* with showOnboarding = false.                                            *)
(***************************************************************************)
C23_FetchEndsWithCustomerOrOnboarding ==
  (pc = "wallet" /\ ui.restaurantSlug /\ ui.fetchEnded = "succeeded") =>
    (ui.customer # NoCustomer \/ ui.showOnboarding)

(***************************************************************************)
(* C26.  RewardService.redeemReward is invoked only for a reward whose     *)
(* points_required is at most the total_points of the customer in the      *)
(* wallet state, across any sequence of selections, confirmations, failed  *)
(* and successful redemptions.                                             *)
(***************************************************************************)
C26_RedeemOnlyAffordable ==
  (pc = "wallet" /\ ui.lastRedeem.called) =>
    ui.lastRedeem.points_required <= ui.lastRedeem.total_points

(***************************************************************************)
(* The menu page (src/src/components/MenuItemsPage.tsx): the create/edit   *)
(* form and the two handlers that write a menu item.  ui holds the stored  *)
(* items by id, showCreateModal, editingItem (the id of the item, "" for   *)
(* null), formData (name, cost_price, selling_price), formError and the    *)
(* call of MenuItemService.createMenuItem or updateMenuItem that the last  *)
(* step made, if it made one.  A handler runs as one step, its awaits      *)
(* included.                                                               *)
(***************************************************************************)
\* a <= b and a < b
Leq(a, b) ==
  LET x == ToNumber(a)
      y == ToNumber(b)
  IN  IF x.k = "nan" \/ y.k = "nan" THEN FALSE ELSE ~Gt(x, y)

Lt(a, b) == Gt(b, a)

\* Texts typed into the name input, and what trim() leaves of them.
ItemNames == {"", " ", "Tea"}

Trim(name) == IF name = " " THEN "" ELSE name

\* The form as resetForm leaves it (lines 190-203).
EmptyForm == [name |-> "", cost_price |-> Fin(0, 1), selling_price |-> Fin(0, 1)]

\* The ids of the menu items: one stored before the page opens, one free.
ItemIds == {"stored", "new"}

StoredItem == [name |-> "Tea", cost_price |-> Fin(0, 1), selling_price |-> Fin(5, 2)]

\* No item under this id.
NoItem == [name |-> "", cost_price |-> Undefined, selling_price |-> Undefined]

NoWrite == [by |-> "nobody", item |-> EmptyForm]

MenuInit ==
  /\ ui = [items |-> [id \in ItemIds |-> IF id = "stored" THEN StoredItem ELSE NoItem],
           showCreateModal |-> FALSE, editingItem |-> "",
           formData |-> EmptyForm, formError |-> "", lastWrite |-> NoWrite]
  /\ pc = "menu"
  /\ config = getDefaultConfig
  /\ orderAmount = Fin(0, 1)
  /\ customerTier = "bronze"
  /\ ret = NotCalled
  /\ NoDatabase

MenuIdle == UNCHANGED <<pc, callVars, dbVars>>

\* The create/edit modal is on (line 480).
MenuModalShown == pc = "menu" /\ (ui.showCreateModal \/ ui.editingItem # "")

\* Add Item (lines 311, 376).
OpenCreateModal ==
  /\ pc = "menu" /\ ~MenuModalShown
  /\ ui' = [ui EXCEPT !.showCreateModal = TRUE, !.lastWrite = NoWrite]
  /\ MenuIdle

\* openEditModal (lines 205-220): the form takes the item's values.
openEditModal ==
  /\ pc = "menu" /\ ~MenuModalShown
  /\ \E id \in ItemIds :
       /\ ui.items[id] # NoItem
       /\ ui' = [ui EXCEPT !.editingItem = id, !.formData = ui.items[id],
                           !.formError = "", !.lastWrite = NoWrite]
  /\ MenuIdle

\* The X and Cancel buttons (lines 488-492, 709-713).
CloseMenuModal ==
  /\ MenuModalShown
  /\ ui' = [ui EXCEPT !.showCreateModal = FALSE, !.editingItem = "",
                      !.formData = EmptyForm, !.formError = "",
                      !.lastWrite = NoWrite]
  /\ MenuIdle

\* The name, cost price and selling price inputs (lines 517, 561, 575).
ChangeItemInput ==
  /\ MenuModalShown
  /\ \/ \E name \in ItemNames :
          ui' = [ui EXCEPT !.formData.name = name, !.lastWrite = NoWrite]
     \/ \E text \in TypedTexts :
          ui' = [ui EXCEPT !.formData.cost_price = Or(parseFloat(text), Fin(0, 1)),
                           !.lastWrite = NoWrite]
     \/ \E text \in TypedTexts :
          ui' = [ui EXCEPT !.formData.selling_price = Or(parseFloat(text), Fin(0, 1)),
                           !.lastWrite = NoWrite]
  /\ MenuIdle

\* The handler returns before any service call, with this formError.
Refuse(message) == ui' = [ui EXCEPT !.formError = message, !.lastWrite = NoWrite]

\* handleCreateItem (lines 81-131); the service gives the item a free id.
handleCreateItem ==
  /\ MenuModalShown /\ ui.editingItem = ""
  /\ IF Trim(ui.formData.name) = "" THEN Refuse("Item name is required")
     ELSE IF Leq(ui.formData.selling_price, Fin(0, 1))
     THEN Refuse("Selling price must be greater than 0")
     ELSE IF Lt(ui.formData.cost_price, Fin(0, 1))
     THEN Refuse("Cost price cannot be negative")
     ELSE \/ \E id \in ItemIds :
               /\ ui.items[id] = NoItem
               /\ ui' = [ui EXCEPT
                           !.lastWrite = [by |-> "handleCreateItem", item |-> ui.formData],
                           !.items[id] = ui.formData,
                           !.showCreateModal = FALSE,
                           !.formData = EmptyForm, !.formError = ""]
          \/ ui' = [ui EXCEPT
                      !.lastWrite = [by |-> "handleCreateItem", item |-> ui.formData],
                      !.formError = "Failed to create menu item"]
  /\ MenuIdle

\* handleUpdateItem (lines 133-172).
handleUpdateItem ==
  /\ MenuModalShown /\ ui.editingItem # ""
  /\ IF Trim(ui.formData.name) = "" THEN Refuse("Item name is required")
     ELSE \/ ui' = [ui EXCEPT
                      !.lastWrite = [by |-> "handleUpdateItem", item |-> ui.formData],
                      !.items[ui.editingItem] = ui.formData,
                      !.editingItem = "",
                      !.formData = EmptyForm, !.formError = ""]
          \/ ui' = [ui EXCEPT
                      !.lastWrite = [by |-> "handleUpdateItem", item |-> ui.formData],
                      !.formError = "Failed to update menu item"]
  /\ MenuIdle

MenuNext ==
  \/ OpenCreateModal
  \/ openEditModal
  \/ CloseMenuModal
  \/ ChangeItemInput
  \/ handleCreateItem
  \/ handleUpdateItem

MenuSpec == MenuInit /\ [][MenuNext]_vars

(***************************************************************************)
(* C24.  Every menu item written through the menu page, by                 *)
(* handleCreateItem or by handleUpdateItem, has a non-empty name,          *)
(* selling_price > 0 and cost_price >= 0; a form that violates one of      *)
(* these sets formError and makes no service call.                         *)
(***************************************************************************)
C24_WrittenItemsAreValid ==
  (pc = "menu" /\ ui.lastWrite.by # "nobody") =>
    /\ Trim(ui.lastWrite.item.name) # ""
    /\ Gt(ui.lastWrite.item.selling_price, Fin(0, 1))
    /\ Leq(Fin(0, 1), ui.lastWrite.item.cost_price)

(***************************************************************************)
(* getLoyaltyROIMetrics (rewardEngineService.ts, lines 191-324): the ROI   *)
(* and its status, from the restaurant's settings and the rows the queries *)
(* return.  ui holds the arguments and the query results; ret the fields   *)
(* of the returned metrics that the ROI is made of.                        *)
(***************************************************************************)
\* a + b
Add(a, b) ==
  LET x == ToNumber(a)
      y == ToNumber(b)
  IN  IF y.k = "fin" THEN Sub(x, Fin(-y.n, y.d))
      ELSE IF y.k = "inf" THEN Sub(x, SignedInfinity(-y.n))
      ELSE NaN

\* Math.abs
MathAbs(a) ==
  LET x == ToNumber(a)
  IN  IF x.k = "nan" THEN NaN
      ELSE IF x.k = "inf" THEN Infinity
      ELSE IF x.n < 0 THEN Fin(-x.n, x.d) ELSE x

\* rows.reduce((sum, r) => sum + r, 0), rows being the summed column
RECURSIVE Sum(_)
Sum(rows) == IF rows = <<>> THEN Fin(0, 1) ELSE Add(Sum(SubSeq(rows, 1, Len(rows) - 1)), rows[Len(rows)])

\* rows?.reduce(...) where data may be null
SumOrUndefined(data) == IF data.isNull THEN Undefined ELSE Sum(data.rows)

\* Lines 239-245: the filters on the sign of the points.
PointsRedeemed(rows) ==
  [i \in 1..Len(SelectSeq(rows, LAMBDA p : Lt(p, Fin(0, 1)))) |->
     MathAbs(SelectSeq(rows, LAMBDA p : Lt(p, Fin(0, 1)))[i])]

\* A variant of RoiStatus that counts an ROI of exactly 100 as high-performing.
RoiStatusInclusive(roi) ==
  IF Leq(Fin(100, 1), roi) THEN "high-performing"
  ELSE IF Leq(Fin(0, 1), roi) THEN "profitable"
  ELSE "losing-money"

\* Lines 262-266
RoiStatus(roi) ==
  IF Gt(roi, Fin(100, 1)) THEN "high-performing"
  ELSE IF Leq(Fin(0, 1), roi) THEN "profitable"
  ELSE "losing-money"

\* getEmptyMetrics (lines 456-477)
getEmptyMetrics ==
  [roi |-> Fin(0, 1), roiStatus |-> "profitable", grossRevenue |-> Fin(0, 1),
   rewardCost |-> Fin(0, 1), netRevenue |-> Fin(0, 1), cogs |-> Fin(0, 1),
   netProfit |-> Fin(0, 1)]

\* getLoyaltyROIMetrics; settings is restaurant?.settings, a record of
\* points_per_dollar and cogs_percentage (Undefined where missing); a query
\* that rejects leads to the catch block.
getLoyaltyROIMetrics(restaurantId, settings, customers, transactions, rejected) ==
  IF restaurantId = "" \/ rejected THEN getEmptyMetrics
  ELSE LET pointsPerDollar == Or(settings.points_per_dollar, Fin(1, 1))
           pointValueAED == Div(Fin(1, 1), pointsPerDollar)
           totalPointsRedeemed ==
             Or(IF transactions.isNull THEN Undefined
                ELSE Sum(PointsRedeemed(transactions.rows)), Fin(0, 1))
           grossRevenue == Or(SumOrUndefined(customers), Fin(0, 1))
           rewardCost == Mul(totalPointsRedeemed, pointValueAED)
           netRevenue == Sub(grossRevenue, rewardCost)
           cogsPercentage == Or(settings.cogs_percentage, Fin(3, 10))
           cogs == Mul(grossRevenue, cogsPercentage)
           netProfit == Sub(netRevenue, cogs)
           roi == IF Gt(rewardCost, Fin(0, 1))
                  THEN Mul(Div(netProfit, rewardCost), Fin(100, 1))
                  ELSE Fin(0, 1)
       IN  [roi |-> roi, roiStatus |-> RoiStatus(roi), grossRevenue |-> grossRevenue,
            rewardCost |-> rewardCost, netRevenue |-> netRevenue, cogs |-> cogs,
            netProfit |-> netProfit]

\* The most rows a query returns.
MaxFetched == 2

\* customers.total_spent, transactions.points and the two settings: JSON
\* numbers, the settings possibly missing.
TotalSpent == {Fin(10, 1), Fin(40, 1)}

TransactionPoints == {Fin(-5, 1), Fin(10, 1), Fin(-20, 1)}

PointsPerDollar == {Undefined, Fin(2, 1), Fin(-1, 1)}

CogsPercentage == {Undefined, Fin(1, 2), Fin(6, 5)}

\* What a select resolves with: data null, or at most MaxFetched rows.
QueryData(column) ==
  {[isNull |-> TRUE, rows |-> <<>>]}
    \cup {[isNull |-> FALSE, rows |-> rows] :
            rows \in UNION {[1..n -> column] : n \in 0..MaxFetched}}

NoData == [isNull |-> TRUE, rows |-> <<>>]

\* getLoyaltyROIMetrics is called (fetchLoyaltyMetrics, part_002 lines 36-60).
RoiInit ==
  /\ config = getDefaultConfig
  /\ orderAmount = Fin(0, 1)
  /\ customerTier = "bronze"
  /\ ret = NotCalled
  /\ NoDatabase
  /\ pc = "roi_called"
  /\ \E restaurantId \in {"", OwnRestaurant}, ppd \in PointsPerDollar, cogs \in CogsPercentage :
       ui = [restaurantId |-> restaurantId,
             settings |-> [points_per_dollar |-> ppd, cogs_percentage |-> cogs],
             customers |-> NoData, transactions |-> NoData, rejected |-> FALSE]

\* Line 197: no restaurant id, the empty metrics at once.
ReturnEmptyMetrics ==
  /\ pc = "roi_called"
  /\ ui.restaurantId = ""
  /\ pc' = "roi_returned"
  /\ ret' = getLoyaltyROIMetrics(ui.restaurantId, ui.settings, ui.customers,
                                 ui.transactions, ui.rejected)
  /\ UNCHANGED <<config, orderAmount, customerTier, ui>>
  /\ UNCHANGED dbVars

\* Lines 200-236: the awaited queries settle.
QueriesSettled ==
  /\ pc = "roi_called"
  /\ ui.restaurantId # ""
  /\ \/ \E customers \in QueryData(TotalSpent), transactions \in QueryData(TransactionPoints) :
          ui' = [ui EXCEPT !.customers = customers, !.transactions = transactions]
     \/ ui' = [ui EXCEPT !.rejected = TRUE]
  /\ pc' = "roi_fetched"
  /\ UNCHANGED callVars
  /\ UNCHANGED dbVars

\* Lines 238-324: the metrics are computed and returned.
ReturnMetrics ==
  /\ pc = "roi_fetched"
  /\ pc' = "roi_returned"
  /\ ret' = getLoyaltyROIMetrics(ui.restaurantId, ui.settings, ui.customers,
                                 ui.transactions, ui.rejected)
  /\ UNCHANGED <<config, orderAmount, customerTier, ui>>
  /\ UNCHANGED dbVars

RoiNext == ReturnEmptyMetrics \/ QueriesSettled \/ ReturnMetrics

RoiSpec == RoiInit /\ [][RoiNext]_vars

\* C25: the metrics getLoyaltyROIMetrics returns have netProfit =
\* grossRevenue - rewardCost - cogs; roi = (netProfit / rewardCost) * 100 when
\* rewardCost > 0 and roi = 0 otherwise; roiStatus 'high-performing' iff
\* roi > 100, 'profitable' iff 0 <= roi <= 100, 'losing-money' iff roi < 0; so
\* with rewardCost = 0 the status is 'profitable' whatever the net profit.
C25_RoiClassification ==
  pc = "roi_returned" =>
    /\ NumEq(ret.netProfit, Sub(Sub(ret.grossRevenue, ret.rewardCost), ret.cogs))
    /\ IF Gt(ret.rewardCost, Fin(0, 1))
       THEN NumEq(ret.roi, Mul(Div(ret.netProfit, ret.rewardCost), Fin(100, 1)))
       ELSE IsZero(ret.roi)
    /\ ret.roiStatus = "high-performing" <=> Gt(ret.roi, Fin(100, 1))
    /\ ret.roiStatus = "profitable" <=>
         (Leq(Fin(0, 1), ret.roi) /\ Leq(ret.roi, Fin(100, 1)))
    /\ ret.roiStatus = "losing-money" <=> Lt(ret.roi, Fin(0, 1))
    /\ IsZero(ret.rewardCost) => ret.roiStatus = "profitable"

\* Nothing redeemed and a loss: the status is 'profitable'.
C25_Witness ==
  /\ pc = "roi_returned"
  /\ ~ui.rejected
  /\ IsZero(ret.rewardCost)
  /\ Lt(ret.netProfit, Fin(0, 1))
  /\ ret.roiStatus = "profitable"

====
